---- MODULE Spec2Model ----
(***************************************************************************)
(* Generation task orchestration of the kino backend.                      *)
(*                                                                         *)
(* The model follows backend/services/generator_service.py (the            *)
(* GeneratorService that owns running_tasks), backend/main.py (startup     *)
(* cleanup of stuck tasks), backend/plugins/base_plugin.py and             *)
(* backend/plugins/example/loader.py (the plugin whose whole pipeline is   *)
(* part of the repository).                                                *)
(*                                                                         *)
(* The process is a single asyncio event loop.  A coroutine runs without   *)
(* interruption between two awaits that really suspend; every database     *)
(* operation (aiosqlite) and asyncio.sleep suspends.  One action of the    *)
(* model is one such uninterrupted block: a database read or write takes   *)
(* effect as one step, and the code after it up to the next database       *)
(* operation is the following step of the same coroutine.  Two kinds of    *)
(* step carry no effect of their own and are taken together with a         *)
(* neighbour: the SELECT that opens update_task_status (its row is used    *)
(* only for `existing.started_at is None`) is taken with the code that     *)
(* enters update_task_status, and a bare `return` after an UPDATE is taken *)
(* with the UPDATE.                                                        *)
(***************************************************************************)
EXTENDS Integers, Sequences, FiniteSets, Bags, TLC

\* ---------------------------------------------------------------- bounds
MaxTasks == 2

\* the tasks submitted to the sdxl and drop-in plugins
MaxPluginTasks == 1

\* the start and stop requests made for them
MaxPluginCalls == 2
\* the tasks with frames: tasks submitted, calls issued, variants requested
MaxFrameTasks == 1
MaxFrameCalls == 2
MaxVariants == 2
MaxSeedCalls == 1
MaxCacheTasks == 2
MaxCacheCalls == 2

MaxSteps == 2
MaxCalls == 3
MaxCrashes == 1

\* ------------------------------------------------------------- constants
None == "None"
\* Python's None where the value is otherwise a number (a progress value)
NoProgress == -1

PENDING == "pending"
RUNNING == "running"
COMPLETED == "completed"
FAILED == "failed"
STOPPED == "stopped"

\* the project of the store, and the project_id of a task that names none
Project == 1
NoProject == 0

\* parameters.seed of a task that supplies none, the seed a task supplies,
\* and the numbers random.randint(0, 2**32 - 1) may draw
NoSeed == -1
BaseSeed == 100
RandomSeeds == {3, 8}

TaskStatus == {PENDING, RUNNING, COMPLETED, FAILED, STOPPED}
TerminalStatus == {COMPLETED, FAILED, STOPPED}

\* A plugin directory put next to the three of the repository:
\* load_plugins_from_directory registers every directory that holds a
\* loader.py with a BasePlugin subclass, and BasePlugin puts no limit on
\* what generate does.
DropInTypes == {"drop_in"}

\* PluginRegistry._plugins after load_plugins_from_directory
RegisteredTypes == {"example", "sdxl", "wan22_i2v"} \cup DropInTypes

\* the types submitted under Spec (the example plugin, and a type that is
\* not registered) and under SpecPlugins
SubmittedTypes == {"example", "unknown"}
SubmittedPluginTypes == {"sdxl", "drop_in"}

StoppedByUser == "Generation stopped by user"
ServerRestart == "Task stopped due to server restart"
\* The data of a PluginResult, by the keys the orchestrator and the callers
\* look at: output_path (is the key present), frame_id (0: absent),
\* generated_frames (the list of frame ids), num_variants.  NoData is the
\* empty dict of a failure and the NULL result of a task row.
NoData ==
    [plugin |-> None, output_path |-> FALSE, frame_id |-> 0,
     generated_frames |-> <<>>, num_variants |-> 0]
ExampleOutput == [NoData EXCEPT !.plugin = "example", !.output_path = TRUE]
SdxlOutput(generated_frames, num_variants) ==
    [NoData EXCEPT !.plugin = "sdxl", !.generated_frames = generated_frames,
                   !.num_variants = num_variants]
SdxlStopped == "Generation stopped"
DropInOutput == [NoData EXCEPT !.plugin = "drop_in"]
DropInError == "drop-in error"

TaskIds == 1..MaxTasks
\* data['steps'] of a submitted task
StepsInputs == 1..MaxSteps

VARIABLES
    phase,          \* "startup" until on_startup has finished, then "serving"
    tasks,          \* the tasks table: sequence of rows, row i has id i
    running_tasks,  \* GeneratorService.running_tasks, in insertion order
    plugins,        \* per task id, the plugin instances created for it, each
                    \* with the _run_generation coroutine that runs it
    calls,          \* bag of the client calls that are suspended in the service
    returns,        \* history: how many calls returned, by <<op, id, result>>
    last,           \* the counts returned by the latest stop_all_tasks,
                    \* clear_pending_tasks or reset_all
    issued,         \* number of client calls issued, over all process lifetimes
    crashes,        \* number of process restarts
    frames,         \* the frames table: sequence of rows, row i has id i
    events,         \* the frame ids of the frame_updated messages broadcast,
                    \* in the order they were sent
    sidecars        \* the parameter files on disk, with the latest
                    \* save_generation_params and load_generation_params

vars == <<phase, tasks, running_tasks, plugins, calls, returns, last, issued, crashes,
          frames, events, sidecars>>

\* ------------------------------------------------------------ task store
Exists(id) == id \in 1..Len(tasks)

\* get_task_by_id(...).status, None for a missing row
StatusOf(id) == IF Exists(id) THEN tasks[id].status ELSE None

\* The UPDATE statement built by update_task_status, applied to one row.
\* started_none is the value of `existing.started_at is None` from the read
\* that precedes the UPDATE.  A stamp k in started_at/completed_at stands for
\* the k-th time value written to the column; 0 is NULL.
UpdateRow(row, u, started_none) ==
    [row EXCEPT
        !.status = u.status,
        !.progress = IF u.progress # NoProgress THEN u.progress ELSE @,
        !.result = IF u.result # NoData THEN u.result ELSE @,
        !.error = IF u.error # None THEN u.error ELSE @,
        !.started_at = IF u.status = RUNNING /\ started_none THEN @ + 1 ELSE @,
        !.completed_at = IF u.status \in TerminalStatus THEN @ + 1 ELSE @]

\* ------------------------------------------------------------ running set
\* An entry maps a task id to the n-th plugin instance created for that id.
RunningIds == {running_tasks[i].id : i \in 1..Len(running_tasks)}

InRunning(id) == id \in RunningIds

IndexOf(id) == CHOOSE i \in 1..Len(running_tasks) : running_tasks[i].id = id

PluginOf(id) == running_tasks[IndexOf(id)].plugin

\* self.running_tasks[task_id] = plugin (a dict keeps the position of a key
\* that is already present)
Insert(rt, id, n) ==
    IF \E i \in 1..Len(rt) : rt[i].id = id
    THEN [i \in 1..Len(rt) |-> IF rt[i].id = id THEN [id |-> id, plugin |-> n] ELSE rt[i]]
    ELSE Append(rt, [id |-> id, plugin |-> n])

\* del self.running_tasks[task_id]
Delete(rt, id) == SelectSeq(rt, LAMBDA e : e.id # id)

\* list(self.running_tasks.keys())
Keys(rt) == [i \in 1..Len(rt) |-> rt[i].id]

\* get_task_progress: live progress of the instance in the running set, or None
get_task_progress(id) ==
    IF ~InRunning(id) THEN NoProgress ELSE plugins[id][PluginOf(id)].progress

\* --------------------------------------------------------------- helpers
\* the arguments of one update_task_status call
Upd(status, progress, result, error) ==
    [status |-> status, progress |-> progress, result |-> result, error |-> error]

NoUpd == Upd(None, NoProgress, NoData, None)

\* A suspended client call.  seen is the status read by the call's
\* get_task_by_id (None: no such row); plugin is the instance a start
\* created; ids is what is left of stop_all_tasks' snapshot of the running
\* set; stopped and cleared are the counts of stop_all_tasks and
\* clear_pending_tasks; snap is what a reset_all found when it was issued
\* with no other call suspended (the ids persisted as RUNNING and as
\* PENDING, the number of rows and the number of calls issued so far), kept
\* to compare the counts it returns with.
NoSnap == [running |-> {}, pending |-> {}, rows |-> 0, issued |-> 0, alone |-> FALSE]

\* the snapshot of a reset_all that returns: kept if no other call was
\* issued and no task was submitted while it ran
LastSnap(r) ==
    IF r.snap.alone /\ r.snap.issued = issued /\ r.snap.rows = Len(tasks)
    THEN [r.snap EXCEPT !.rows = 0, !.issued = 0]
    ELSE NoSnap

NewCall(op, id) ==
    [op |-> op, id |-> id, pc |-> None, seen |-> None, plugin |-> 0,
     upd |-> NoUpd, started_none |-> FALSE, after |-> None,
     ids |-> <<>>, stopped |-> 0, cleared |-> 0, snap |-> NoSnap]

\* base_plugin.PluginResult(success, data, error)
PluginResult(success, data, error) ==
    [success |-> success, data |-> data, error |-> error]

\* generate has not returned
NoResult == [success |-> FALSE, data |-> NoData, error |-> None]

\* A plugin instance (BasePlugin.__init__) together with the
\* _run_generation coroutine that runs it; result is what generate
\* returned, raised the class of the exception it raised, propagated
\* whether an exception left _run_generation, previews the coroutines
\* created by the sdxl preview callback.  progress is BasePlugin.progress,
\* what get_progress returns; reported is the last value the pipeline
\* handed to its progress callback.  Of the sdxl loader: variant is
\* variant_idx, seeds the current_seed of the variants started so far,
\* frame_id the Frame record of the running variant, base_frame_id and
\* generated the locals base_frame_id (0: None) and generated_frames.
NewPlugin ==
    [pc |-> "created", should_stop |-> FALSE, progress |-> 0, step |-> 0,
     upd |-> NoUpd, started_none |-> FALSE, after |-> None, result |-> NoResult,
     raised |-> None, propagated |-> FALSE, previews |-> <<>>,
     reported |-> NoProgress,
     variant |-> 0, seeds |-> <<>>, frame_id |-> 0, base_frame_id |-> 0,
     generated |-> <<>>, loaded_checkpoint |-> None, sent |-> <<>>]

\* "stop_raised" records a stop_generation call that ended with the exception
\* of plugin.stop()
Ops == {"create", "start", "stop", "stop_raised", "progress", "stop_all", "clear",
        "reset_all"}
ReturnKeys == Ops \X (0..MaxTasks) \X BOOLEAN

NoCounts == [op |-> None, stopped |-> 0, cleared |-> 0, snap |-> NoSnap]

Suspended == BagToSet(calls)

\* the call r is suspended again as r2
Resume(r, r2) == calls' = (calls (-) SetToBag({r})) (+) SetToBag({r2})

\* the call r returns; start and stop return a bool for r.id, the other
\* operations are recorded under id 0
Return(r, id, ret) ==
    /\ calls' = calls (-) SetToBag({r})
    /\ returns' = [returns EXCEPT ![<<r.op, id, ret>>] = @ + 1]

\* a call is issued and suspends as r
Issue(r) ==
    /\ phase = "serving"
    /\ issued < MaxCalls
    /\ issued' = issued + 1
    /\ calls' = calls (+) SetToBag({r})

\* ------------------------------------------------- generation parameters
\* bricks/generation_params.py.  A path is a directory, a stem and a suffix;
\* Path.with_suffix replaces the suffix, Path.name is stem and suffix
with_suffix(path, suffix) == [path EXCEPT !.suffix = suffix]

PathName(path) == path.stem \o path.suffix

PathStr(path) == path.parent \o "/" \o PathName(path)

\* lines 148-158: the path of the parameter file of an image
get_params_path(image_path) == with_suffix(image_path, ".json")

\* Python values: None, int, str, list and dict with str keys (a tuple
\* would be [py |-> "tuple", v |-> seq])
PyNone == [py |-> "None"]
PyInt(n) == [py |-> "int", v |-> n]
PyStr(str) == [py |-> "str", v |-> str]
PyList(seq) == [py |-> "list", v |-> seq]
PyDict(fn) == [py |-> "dict", v |-> fn]

\* json.dump (line 111): None becomes null, an int a number, a str a
\* string, a list or a tuple an array, a dict an object
RECURSIVE JsonDump(_)
JsonDump(value) ==
    CASE value.py = "None" -> [json |-> "null"]
      [] value.py = "int" -> [json |-> "number", v |-> value.v]
      [] value.py = "str" -> [json |-> "string", v |-> value.v]
      [] value.py \in {"list", "tuple"} ->
            [json |-> "array", v |-> [e \in 1..Len(value.v) |-> JsonDump(value.v[e])]]
      [] OTHER ->
            [json |-> "object", v |-> [k \in DOMAIN value.v |-> JsonDump(value.v[k])]]

\* json.load (line 140): an array becomes a list, an object a dict
RECURSIVE JsonLoad(_)
JsonLoad(text) ==
    CASE text.json = "null" -> PyNone
      [] text.json = "number" -> PyInt(text.v)
      [] text.json = "string" -> PyStr(text.v)
      [] text.json = "array" ->
            PyList([e \in 1..Len(text.v) |-> JsonLoad(text.v[e])])
      [] OTHER -> PyDict([k \in DOMAIN text.v |-> JsonLoad(text.v[k])])

\* the arguments of a save_generation_params call that names an image
SaveArgs(output_path, plugin_name, plugin_version, task_id, timestamp, parameters, project_id) ==
    [output_path |-> output_path, plugin_name |-> plugin_name,
     plugin_version |-> plugin_version, task_id |-> task_id, timestamp |-> timestamp,
     parameters |-> parameters, project_id |-> project_id]

\* lines 86-107: the dict that is written; project_id only if it is not None
GenerationData(a) ==
    LET data == [plugin |-> a.plugin_name,
                 plugin_version |-> a.plugin_version,
                 parameters |-> a.parameters,
                 output |-> PyDict([filename |-> PyStr(PathName(a.output_path)),
                                    path |-> PyStr(PathStr(a.output_path))]),
                 timestamp |-> a.timestamp,
                 task_id |-> a.task_id] IN
    PyDict(IF a.project_id # PyNone
           THEN [k \in DOMAIN data \cup {"project_id"} |->
                    IF k = "project_id" THEN a.project_id ELSE data[k]]
           ELSE data)

\* no parameter file, no call yet

\* the parameter file at json_path, if there is one
FileAt(files, json_path) == {f \in 1..Len(files) : files[f].path = json_path}

\* a write that leaves an existing file as it is
WriteFileOnce(files, json_path, text) ==
    IF FileAt(files, json_path) = {}
    THEN Append(files, [path |-> json_path, text |-> text])
    ELSE files

\* open(json_path, 'w') and json.dump (lines 110-111): the file is created
\* or overwritten
WriteFile(files, json_path, text) ==
    IF FileAt(files, json_path) = {}
    THEN Append(files, [path |-> json_path, text |-> text])
    ELSE [f \in 1..Len(files) |->
             IF files[f].path = json_path THEN [files[f] EXCEPT !.text = text]
             ELSE files[f]]

\* save_generation_params lines 75-113 for an output_path: the file is
\* written and its path returned
SaveParams(sc, a) ==
    LET json_path == with_suffix(a.output_path, ".json") IN
    [files |-> WriteFile(sc.files, json_path, JsonDump(GenerationData(a))),
     saved |-> <<[args |-> a, json_path |-> json_path]>>,
     loaded |-> <<>>]

\* load_generation_params lines 131-143: None if the file does not exist,
\* else what json.load makes of it
LoadParams(sc, image_path) ==
    LET json_path == with_suffix(image_path, ".json")
        at == FileAt(sc.files, json_path) IN
    [sc EXCEPT !.loaded =
        <<[image_path |-> image_path,
           result |-> IF at = {} THEN PyNone
                      ELSE JsonLoad(sc.files[CHOOSE f \in at : TRUE].text)]>>]

\* ------------------------------------------------------------------ Init
Init ==
    /\ phase = "startup"
    /\ tasks = <<>>
    /\ running_tasks = <<>>
    /\ plugins = [id \in TaskIds |-> <<>>]
    /\ calls = EmptyBag
    /\ returns = [k \in ReturnKeys |-> 0]
    /\ last = NoCounts
    /\ issued = 0
    /\ crashes = 0
    /\ frames = <<>>
    /\ events = <<>>
    /\ sidecars = [files |-> <<>>, saved |-> <<>>, loaded |-> <<>>]

\* ------------------------------------------------- startup crash recovery
\* cleanup_stuck_tasks: the rows SELECTed with status 'running'
StuckTasks == {id \in 1..Len(tasks) : tasks[id].status = RUNNING}

\* an UPDATE that leaves the progress column alone
CleanupRowKeepProgress(row) ==
    [row EXCEPT !.status = STOPPED, !.error = ServerRestart]

\* the UPDATE of cleanup_stuck_tasks applied to one stuck row
CleanupRow(row) ==
    [row EXCEPT !.status = STOPPED, !.progress = 0, !.error = ServerRestart]

\* on_startup: runs to completion before the server accepts a request; no
\* other coroutine of the process exists yet.  (db.commit() at line 57 does
\* not exist on Database; the AttributeError is caught at line 62 after
\* every row has been updated and committed by db.execute.)
cleanup_stuck_tasks ==
    /\ phase = "startup"
    /\ tasks' = [id \in 1..Len(tasks) |->
                    IF id \in StuckTasks THEN CleanupRow(tasks[id]) ELSE tasks[id]]
    /\ phase' = "serving"
    /\ UNCHANGED <<running_tasks, plugins, calls, returns, last, issued, crashes, frames, events, sidecars>>

\* The process dies and is started again: the store survives, the running
\* set, the plugin instances and every coroutine are gone.  A process that
\* has served no call yet has no instance, no coroutine and no RUNNING row:
\* its restart leaves every variable but the restart count as it is, so
\* the restarts followed are those after the first call.
Crash ==
    /\ phase = "serving"
    /\ crashes < MaxCrashes
    /\ issued > 0
    /\ crashes' = crashes + 1
    /\ phase' = "startup"
    /\ running_tasks' = <<>>
    /\ plugins' = [id \in TaskIds |-> <<>>]
    /\ calls' = EmptyBag
    /\ returns' = [k \in ReturnKeys |-> 0]
    /\ last' = NoCounts
    /\ UNCHANGED <<tasks, issued, frames, events, sidecars>>

\* ---------------------------------------------------------------- submit
\* a registry that knows every type
IsRegisteredAny(type) == TRUE

\* PluginRegistry.is_registered
is_registered(type) == type \in RegisteredTypes

\* The data of a TaskCreate, by the keys the plugins and the orchestrator
\* read: steps, project_id (NoProject: absent), parameters.num_variants and
\* parameters.seed (NoSeed: absent)
TaskData(steps, project_id, num_variants, seed) ==
    [steps |-> steps, project_id |-> project_id, num_variants |-> num_variants,
     seed |-> seed]

\* the row INSERTed by create_task
NewTask(type, data) ==
    [type |-> type, steps |-> data.steps, project_id |-> data.project_id,
     num_variants |-> data.num_variants, seed |-> data.seed,
     status |-> PENDING, progress |-> 0,
     result |-> NoData, error |-> None, started_at |-> 0, completed_at |-> 0]

\* create_task: ValueError for a type that is not registered (lines 56-57,
\* recorded as a create call that failed), else the INSERT of lines 59-69.
\* The row read back at line 71 is the row inserted: nothing deletes a task.
Submit(type, data, max) ==
    /\ phase = "serving"
    /\ IF is_registered(type)
       THEN /\ Len(tasks) < max
            /\ tasks' = Append(tasks, NewTask(type, data))
            /\ UNCHANGED <<returns, issued>>
       ELSE /\ issued < MaxCalls
            /\ issued' = issued + 1
            /\ returns' = [returns EXCEPT ![<<"create", 0, FALSE>>] = @ + 1]
            /\ UNCHANGED tasks
    /\ UNCHANGED <<phase, running_tasks, plugins, calls, last, crashes, frames, events, sidecars>>

\* the tasks of Spec carry steps only
create_task ==
    \E type \in SubmittedTypes, steps \in StepsInputs :
        Submit(type, TaskData(steps, NoProject, 1, NoSeed), MaxTasks)

\* create_task for the plugins of SpecPlugins
create_plugin_task ==
    \E type \in SubmittedPluginTypes, steps \in StepsInputs :
        Submit(type, TaskData(steps, Project, 1, BaseSeed), MaxPluginTasks)

\* ------------------------------------------------- update_task_status
\* A coroutine record r (a call or a pipeline) enters update_task_status
\* for task id: lines 87-113 read the row and build the UPDATE.  The row
\* always exists: nothing in the service deletes a task.
UtsEnter(r, id, u, after) ==
    [r EXCEPT !.pc = "uts_write", !.upd = u, !.after = after,
              !.started_none = (tasks[id].started_at = 0)]

\* lines 123-124: the UPDATE has been executed, the coroutine goes on
UtsLeave(r) ==
    [r EXCEPT !.pc = r.after, !.upd = NoUpd, !.after = None, !.started_none = FALSE]

\* ------------------------------------------------------ start_generation
\* a guard that only refuses a task that is running
StartAllowedNotRunning(seen) == seen # RUNNING

\* line 132: the guard of start
StartAllowed(seen) == seen = PENDING

\* line 128: the call is issued and its get_task_by_id reads the row
start_generation ==
    \E id \in TaskIds :
    /\ Issue([NewCall("start", id) EXCEPT !.pc = "start_check", !.seen = StatusOf(id)])
    /\ UNCHANGED <<phase, tasks, running_tasks, plugins, returns, last, crashes, frames, events, sidecars>>

\* lines 129-150: reject, or instantiate the plugin and register it, then
\* enter update_task_status(RUNNING, progress=0.0).  get_plugin (line 136)
\* finds the class: create_task admits registered types only and the
\* registry does not change after import.
start_check ==
    \E r \in Suspended :
    /\ r.pc = "start_check"
    /\ IF r.seen = None \/ ~StartAllowed(r.seen)
       THEN /\ Return(r, r.id, FALSE)
            /\ UNCHANGED <<plugins, running_tasks>>
       ELSE LET n == Len(plugins[r.id]) + 1 IN
            /\ plugins' = [plugins EXCEPT ![r.id] = Append(@, NewPlugin)]
            /\ running_tasks' = Insert(running_tasks, r.id, n)
            /\ Resume(r, UtsEnter([r EXCEPT !.plugin = n], r.id,
                                  Upd(RUNNING, 0, NoData, None), "start_dispatch"))
            /\ UNCHANGED returns
    /\ UNCHANGED <<phase, tasks, last, issued, crashes, frames, events, sidecars>>

\* lines 151-156: asyncio.create_task(_run_generation(...)); return True
start_dispatch ==
    \E r \in Suspended :
    /\ r.pc = "start_dispatch"
    /\ plugins' = [plugins EXCEPT ![r.id][r.plugin].pc = "scheduled"]
    /\ Return(r, r.id, TRUE)
    /\ UNCHANGED <<phase, tasks, running_tasks, last, issued, crashes, frames, events, sidecars>>

\* ------------------------------------------------------- stop_generation
\* a guard that also stops a task that has not started
StopAllowedPending(seen) == seen \in {RUNNING, PENDING}

\* line 289: the guard of stop
StopAllowed(seen) == seen = RUNNING

\* BasePlugin subclasses' stop(): sets the cooperative cancellation flag
stop(pl) == [pl EXCEPT !.should_stop = TRUE]

\* what `await plugin.stop()` (line 295) can do for task id: the stop of the
\* repository's plugins sets flags and returns; the stop of a drop-in plugin
\* may raise (TRUE)
StopRaises(id) ==
    IF Exists(id) /\ tasks[id].type \in DropInTypes THEN BOOLEAN ELSE {FALSE}

\* line 285: the call is issued and its get_task_by_id reads the row
stop_generation ==
    \E id \in TaskIds :
    /\ Issue([NewCall("stop", id) EXCEPT !.pc = "stop_check", !.seen = StatusOf(id)])
    /\ UNCHANGED <<phase, tasks, running_tasks, plugins, returns, last, crashes, frames, events, sidecars>>

\* lines 292-300: signal the instance found in the running set, delete the
\* entry and enter update_task_status(STOPPED)
StopPlugin(r, after) ==
    /\ IF InRunning(r.id)
       THEN /\ plugins' = [plugins EXCEPT ![r.id][PluginOf(r.id)] = stop(@)]
            /\ running_tasks' = Delete(running_tasks, r.id)
       ELSE UNCHANGED <<plugins, running_tasks>>
    /\ Resume(r, UtsEnter(r, r.id, Upd(STOPPED, NoProgress, NoData, None), after))

\* lines 286-300 of a stop call; an exception of plugin.stop() leaves
\* stop_generation before the entry is deleted and before the update
stop_check ==
    \E r \in Suspended :
    \E raises \in StopRaises(r.id) :
    /\ r.pc = "stop_check"
    /\ IF r.seen = None \/ ~StopAllowed(r.seen)
       THEN /\ Return(r, r.id, FALSE)
            /\ UNCHANGED <<plugins, running_tasks>>
       ELSE IF raises /\ InRunning(r.id)
       THEN /\ calls' = calls (-) SetToBag({r})
            /\ returns' = [returns EXCEPT ![<<"stop_raised", r.id, FALSE>>] = @ + 1]
            /\ UNCHANGED <<plugins, running_tasks>>
       ELSE /\ StopPlugin(r, "stop_return")
            /\ UNCHANGED returns
    /\ UNCHANGED <<phase, tasks, last, issued, crashes, frames, events, sidecars>>

\* ------------------------------------------------------- get_task_progress
\* synchronous: the call is issued and returns in one step (TRUE: a live
\* value, FALSE: None)
task_progress ==
    \E id \in TaskIds :
    /\ phase = "serving"
    /\ issued < MaxCalls
    /\ issued' = issued + 1
    /\ returns' = [returns EXCEPT ![<<"progress", id, get_task_progress(id) # NoProgress>>] = @ + 1]
    /\ UNCHANGED <<phase, tasks, running_tasks, plugins, calls, last, crashes, frames, events, sidecars>>

\* --------------------------------------------------- clear_pending_tasks
\* lines 343-350: the ids SELECTed with status pending
PendingIds == {id \in 1..Len(tasks) : tasks[id].status = PENDING}

\* lines 354-363: the bulk UPDATE ... WHERE status = pending, on one row
ClearRow(row) ==
    IF row.status = PENDING
    THEN [row EXCEPT !.status = STOPPED, !.completed_at = @ + 1]
    ELSE row

\* the end of clear_pending_tasks, which is also the end of reset_all
ClearReturn(r, cleared) ==
    /\ Return(r, 0, TRUE)
    /\ last' = [op |-> r.op, stopped |-> r.stopped, cleared |-> cleared, snap |-> LastSnap(r)]

\* lines 347-352 after the SELECT: nothing pending returns 0 at once
ClearSelected(r0, r) ==
    IF PendingIds = {}
    THEN ClearReturn(r0, 0)
    ELSE /\ Resume(r0, [r EXCEPT !.pc = "clear_write", !.cleared = Cardinality(PendingIds)])
         /\ UNCHANGED <<returns, last>>

\* a clear_pending_tasks call is issued and its SELECT reads the pending ids
clear_pending_tasks ==
    /\ phase = "serving"
    /\ issued < MaxCalls
    /\ issued' = issued + 1
    /\ LET r == NewCall("clear", 0) IN
       IF PendingIds = {}
       THEN /\ returns' = [returns EXCEPT ![<<"clear", 0, TRUE>>] = @ + 1]
            /\ last' = [op |-> "clear", stopped |-> 0, cleared |-> 0, snap |-> NoSnap]
            /\ UNCHANGED calls
       ELSE /\ calls' = calls (+) SetToBag({[r EXCEPT !.pc = "clear_write",
                                                     !.cleared = Cardinality(PendingIds)]})
            /\ UNCHANGED <<returns, last>>
    /\ UNCHANGED <<phase, tasks, running_tasks, plugins, crashes, frames, events, sidecars>>

\* reset_all line 373: the SELECT of clear_pending_tasks
clear_read ==
    \E r \in Suspended :
    /\ r.pc = "clear_read"
    /\ ClearSelected(r, r)
    /\ UNCHANGED <<phase, tasks, running_tasks, plugins, issued, crashes, frames, events, sidecars>>

\* lines 354-365: the bulk UPDATE; returns the count of the SELECT
clear_write ==
    \E r \in Suspended :
    /\ r.pc = "clear_write"
    /\ tasks' = [id \in 1..Len(tasks) |-> ClearRow(tasks[id])]
    /\ ClearReturn(r, r.cleared)
    /\ UNCHANGED <<phase, running_tasks, plugins, issued, crashes, frames, events, sidecars>>

\* ------------------------------------------------ stop_all_tasks, reset_all
\* a loop that gives up after the first id of the snapshot
StopAllFirstOnly(r0, r) ==
    /\ Return(r0, 0, TRUE)
    /\ last' = [op |-> r.op, stopped |-> r.stopped, cleared |-> 0, snap |-> NoSnap]

\* the loop of stop_all_tasks goes on with the rest of the snapshot, or
\* ends: stop_all_tasks returns, reset_all goes on to clear_pending_tasks
StopAllNext(r0, r) ==
    LET rest == Tail(r.ids) IN
    IF rest # <<>>
    THEN /\ Resume(r0, [r EXCEPT !.ids = rest, !.id = Head(rest), !.pc = "stop_all_read"])
         /\ UNCHANGED <<returns, last>>
    ELSE IF r.op = "reset_all"
    THEN /\ Resume(r0, [r EXCEPT !.ids = rest, !.id = 0, !.pc = "clear_read"])
         /\ UNCHANGED <<returns, last>>
    ELSE /\ Return(r0, 0, TRUE)
         /\ last' = [op |-> r.op, stopped |-> r.stopped, cleared |-> 0, snap |-> LastSnap(r)]

\* lines 321-326: the call is issued and takes its snapshot of the keys
StopAllIssue(op) ==
    /\ phase = "serving"
    /\ issued < MaxCalls
    /\ issued' = issued + 1
    /\ LET ids == Keys(running_tasks)
           r == [NewCall(op, 0) EXCEPT !.snap =
                    IF op = "reset_all" /\ calls = EmptyBag
                    THEN [running |-> {id \in 1..Len(tasks) : tasks[id].status = RUNNING},
                          pending |-> PendingIds, rows |-> Len(tasks),
                          issued |-> issued + 1, alone |-> TRUE]
                    ELSE NoSnap] IN
       IF ids # <<>>
       THEN /\ calls' = calls (+) SetToBag({[r EXCEPT !.ids = ids, !.id = Head(ids),
                                                     !.pc = "stop_all_read"]})
            /\ UNCHANGED <<returns, last>>
       ELSE IF op = "reset_all"
       THEN /\ calls' = calls (+) SetToBag({[r EXCEPT !.pc = "clear_read"]})
            /\ UNCHANGED <<returns, last>>
       ELSE /\ returns' = [returns EXCEPT ![<<op, 0, TRUE>>] = @ + 1]
            /\ last' = [op |-> op, stopped |-> 0, cleared |-> 0, snap |-> NoSnap]
            /\ UNCHANGED calls
    /\ UNCHANGED <<phase, tasks, running_tasks, plugins, crashes, frames, events, sidecars>>

stop_all_tasks == StopAllIssue("stop_all")

reset_all == StopAllIssue("reset_all")

\* line 328 -> line 285: stop_generation of the next id reads the row
stop_all_read ==
    \E r \in Suspended :
    /\ r.pc = "stop_all_read"
    /\ Resume(r, [r EXCEPT !.pc = "stop_all_check", !.seen = StatusOf(r.id)])
    /\ UNCHANGED <<phase, tasks, running_tasks, plugins, returns, last, issued, crashes, frames, events, sidecars>>

\* line 328 -> lines 286-300: stop_generation of the next id, rejected
\* (success is False, the loop goes on), ended by an exception of
\* plugin.stop() (lines 331-333: the loop goes on) or applied
stop_all_check ==
    \E r \in Suspended :
    \E raises \in StopRaises(r.id) :
    /\ r.pc = "stop_all_check"
    /\ IF r.seen = None \/ ~StopAllowed(r.seen) \/ (raises /\ InRunning(r.id))
       THEN /\ StopAllNext(r, r)
            /\ UNCHANGED <<plugins, running_tasks>>
       ELSE /\ StopPlugin(r, "stop_all_next")
            /\ UNCHANGED <<returns, last>>
    /\ UNCHANGED <<phase, tasks, issued, crashes, frames, events, sidecars>>

\* update_task_status inside a start or a stop: the UPDATE of line 123.
\* A start goes on to its dispatch, a stop returns True (line 302), and
\* inside stop_all_tasks the loop counts the success (lines 329-330).
call_update_write ==
    \E r \in Suspended :
    /\ r.pc = "uts_write"
    /\ tasks' = [tasks EXCEPT ![r.id] = UpdateRow(@, r.upd, r.started_none)]
    /\ CASE r.op = "start" -> Resume(r, UtsLeave(r)) /\ UNCHANGED <<returns, last>>
         [] r.op = "stop" -> Return(r, r.id, TRUE) /\ UNCHANGED last
         [] OTHER -> StopAllNext(r, [UtsLeave(r) EXCEPT !.stopped = @ + 1])
    /\ UNCHANGED <<phase, running_tasks, plugins, issued, crashes, frames, events, sidecars>>

\* ------------------------------------------- _run_generation / generate
\* ExamplePlugin.generate line 45: progress after step k of n (a percentage)
StepProgress(k, n) == (k * 100) \div n

\* a completion handling that records every result as a success
FinalUpdateCompleted(result) == Upd(COMPLETED, 100, result.data, None)

\* _run_generation lines 175-197: the final update for a PluginResult
FinalUpdate(result) ==
    IF result.success
    THEN Upd(COMPLETED, 100, result.data, None)
    ELSE Upd(FAILED, NoProgress, NoData, result.error)

\* _run_generation lines 185-186 and _create_frame_record lines 217-231:
\* after the COMPLETED update, is there a Frame record to fetch or to
\* create: the result holds 'output_path', and it names a frame or the
\* task data names a project
WantsFrameRecord(id, result) ==
    /\ result.success
    /\ result.data.output_path
    /\ result.data.frame_id # 0 \/ tasks[id].project_id # NoProject

\* _run_generation line 172 onwards: generate of the pipeline pl returned
\* result, and completion handling enters its update_task_status
Returned(pl, id, result) ==
    UtsEnter([pl EXCEPT !.result = result], id, FinalUpdate(result),
             IF WantsFrameRecord(id, result) THEN "frame_record" ELSE "finally")

\* _run_generation lines 166-168: the progress callback handed to generate,
\* called by the pipeline pl with progress p
progress_callback(pl, id, p, after) ==
    UtsEnter([pl EXCEPT !.reported = p], id, Upd(RUNNING, p, NoData, None), after)

\* the n-th instance created for task id
Instances == {<<id, n>> \in TaskIds \X (1..MaxCalls) : n <= Len(plugins[id])}

Pipeline(i) == plugins[i[1]][i[2]]

Steps(i) == tasks[i[1]].steps

SetPipeline(i, pl) == plugins' = [plugins EXCEPT ![i[1]][i[2]] = pl]

\* the coroutine created by asyncio.create_task starts: _run_generation
\* line 172 calls generate, which runs lines 24-42 of the example plugin up
\* to its first sleep
generate_begin ==
    \E i \in Instances :
    /\ Pipeline(i).pc = "scheduled"
    /\ tasks[i[1]].type = "example"
    /\ SetPipeline(i, [Pipeline(i) EXCEPT !.should_stop = FALSE, !.progress = 0,
                                          !.step = 0, !.pc = "sleep"])
    /\ UNCHANGED <<phase, tasks, running_tasks, calls, returns, last, issued, crashes, frames, events, sidecars>>

\* lines 42-46: the sleep ends, update_progress sets self.progress and
\* awaits progress_callback, i.e. update_task_status(RUNNING, progress)
generate_step ==
    \E i \in Instances :
    /\ Pipeline(i).pc = "sleep"
    /\ LET pl == Pipeline(i)
           progress == StepProgress(pl.step + 1, Steps(i)) IN
       SetPipeline(i, progress_callback([pl EXCEPT !.progress = progress], i[1],
                                        progress, "loop"))
    /\ UNCHANGED <<phase, tasks, running_tasks, calls, returns, last, issued, crashes, frames, events, sidecars>>

\* lines 33-39 and 48-60: after the callback returned, the next iteration
\* polls should_stop; after the last step the plugin returns success
\* without polling.  The result goes to _run_generation lines 175-197.
generate_loop ==
    \E i \in Instances :
    /\ Pipeline(i).pc = "loop"
    /\ LET pl == [Pipeline(i) EXCEPT !.step = @ + 1] IN
       SetPipeline(i,
           IF pl.step < Steps(i)
           THEN IF pl.should_stop
                THEN Returned(pl, i[1], PluginResult(FALSE, NoData, StoppedByUser))
                ELSE [pl EXCEPT !.pc = "sleep"]
           ELSE Returned(pl, i[1], PluginResult(TRUE, ExampleOutput, None)))
    /\ UNCHANGED <<phase, tasks, running_tasks, calls, returns, last, issued, crashes, frames, events, sidecars>>

\* update_task_status inside the pipeline (progress callback or final
\* update): the UPDATE of line 123
run_update_write ==
    \E i \in Instances :
    /\ Pipeline(i).pc = "uts_write"
    /\ tasks' = [tasks EXCEPT ![i[1]] =
                    UpdateRow(@, Pipeline(i).upd, Pipeline(i).started_none)]
    /\ SetPipeline(i, UtsLeave(Pipeline(i)))
    /\ UNCHANGED <<phase, running_tasks, calls, returns, last, issued, crashes, frames, events, sidecars>>

\* _create_frame_record lines 243-250 with FrameService.create_frame lines
\* 80-89: the row INSERTed by the orchestrator for the n-th run of task id;
\* variant_id takes the default of FrameCreate, and the path is the result's
\* output_path, which names no frame
TaskFrame(id, n) ==
    [generator |-> tasks[id].type, project_id |-> tasks[id].project_id,
     variant_id |-> 0, naming |-> 0, task |-> id, run |-> n, path |-> "output_path"]

\* _run_generation lines 185-190 after the COMPLETED update:
\* _create_frame_record returns the frame the result names (lines 217-225,
\* None if there is no such row) or creates one (lines 227-253), and
\* _broadcast_frame_update (lines 260-281) sends frame_updated for it
create_frame_record ==
    \E i \in Instances :
    /\ Pipeline(i).pc = "frame_record"
    /\ LET frame_id == Pipeline(i).result.data.frame_id IN
       IF frame_id # 0
       THEN /\ UNCHANGED frames
            /\ events' = IF frame_id \in 1..Len(frames)
                         THEN Append(events, frame_id) ELSE events
       ELSE /\ frames' = Append(frames, TaskFrame(i[1], i[2]))
            /\ events' = Append(events, Len(frames) + 1)
    /\ SetPipeline(i, [Pipeline(i) EXCEPT !.pc = "finally"])
    /\ UNCHANGED <<phase, tasks, running_tasks, calls, returns, last, issued, crashes,
                   sidecars>>

\* lines 207-211: the finally block deletes whatever entry the running set
\* holds for the task id
run_generation_finally ==
    \E i \in Instances :
    /\ Pipeline(i).pc = "finally"
    /\ running_tasks' = Delete(running_tasks, i[1])
    /\ SetPipeline(i, [Pipeline(i) EXCEPT !.pc = "ended"])
    /\ UNCHANGED <<phase, tasks, calls, returns, last, issued, crashes, frames, events, sidecars>>

\* ------------------------------------------------------ the sdxl plugin
\* sdxl/loader.py lines 160-170: the callback handed to variant v of n maps
\* the variant's progress p into the variant's share of 5..95, i.e.
\* start + p * (end - start) / 100 with start = 5 + v / n * 90 and
\* end = 5 + (v + 1) / n * 90, kept in whole percent like every progress
\* value of the model
VariantProgress(v, n, p) == 5 + ((v * 100 + p) * 90) \div (n * 100)

\* line 421: the progress reported by on_preview for sampling step `step`
PreviewProgress(step, total) == 25 + (step * 60) \div total

\* The awaited update_progress calls of one variant without LoRAs (the
\* default), in program order: lines 297, 308, 315, 414, 460, 496 and 526 of
\* _generate_single_variant; then line 193 of generate, after the last
\* variant.  poll: a should_stop check stands between the previous call and
\* this one (lines 157/293, 304, 311, 456); frame: the Frame record is
\* created between the previous call and this one (lines 317-363);
\* sampling: the KSampler runs between the previous call and this one
\* (lines 441-452); variant: the call goes through the variant's callback.
SdxlStages ==
    <<[p |-> 15, poll |-> TRUE, frame |-> FALSE, sampling |-> FALSE, variant |-> TRUE],
      [p |-> 20, poll |-> TRUE, frame |-> FALSE, sampling |-> FALSE, variant |-> TRUE],
      [p |-> 15, poll |-> TRUE, frame |-> FALSE, sampling |-> FALSE, variant |-> TRUE],
      [p |-> 25, poll |-> FALSE, frame |-> TRUE, sampling |-> FALSE, variant |-> TRUE],
      [p |-> 85, poll |-> TRUE, frame |-> FALSE, sampling |-> TRUE, variant |-> TRUE],
      [p |-> 95, poll |-> FALSE, frame |-> FALSE, sampling |-> FALSE, variant |-> TRUE],
      [p |-> 100, poll |-> FALSE, frame |-> FALSE, sampling |-> FALSE, variant |-> TRUE],
      [p |-> 100, poll |-> FALSE, frame |-> FALSE, sampling |-> FALSE, variant |-> FALSE]>>

\* the stage that ends with update_progress(95.0): the image is decoded and
\* saved and update_frame_path writes the final path (lines 460-490)
FinalPathStage == 6

\* the number of update_progress calls of one variant
VariantStages == Len(SdxlStages) - 1

\* lines 173-178: the failure of variant v (counted from 0) as generate
\* returns it
VariantFailed(v, error) ==
    "Failed to generate variant " \o ToString(v + 1) \o ": " \o error

\* the error of a generation stopped before stage k of variant v: the check
\* of line 157 returns it as it is, those of _generate_single_variant are
\* wrapped by lines 173-178
StoppedError(v, k) == IF k = 1 THEN SdxlStopped ELSE VariantFailed(v, SdxlStopped)

\* the value a stage of variant v of n hands to the orchestrator's callback
StageProgress(st, v, n) == IF st.variant THEN VariantProgress(v, n, st.p) ELSE st.p

\* line 423: asyncio.create_task(self.update_progress(step_progress, ...)),
\* once per sampling step; nothing awaits these coroutines.  p is the
\* step_progress the coroutine was created with.
NewPreviews(total) ==
    [s \in 1..total |->
        [pc |-> "scheduled", p |-> PreviewProgress(s - 1, total),
         upd |-> NoUpd, started_none |-> FALSE, after |-> None]]

\* lines 244-249: the seeds variant v may run with: base_seed + v, or
\* random.randint(0, 2**32 - 1) + v with a number drawn for this variant
VariantSeeds(base_seed, v) ==
    IF base_seed # NoSeed THEN {base_seed + v} ELSE {x + v : x \in RandomSeeds}

\* line 313: the frame id the files of the current variant are named after
NamingFrameId(pl) == IF pl.base_frame_id # 0 THEN pl.base_frame_id ELSE pl.frame_id

\* FrameService.create_frame lines 80-89: the row INSERTed by the plugin for
\* variant v, as it stands after the update_frame of lines 360-363 has set
\* its path; naming is the frame id in the file name.  task and run tell
\* which run of which task made the row (history, not a column).
SdxlFrame(id, n, project_id, v, naming) ==
    [generator |-> "sdxl", project_id |-> project_id, variant_id |-> v,
     naming |-> naming, task |-> id, run |-> n, path |-> "preview_path"]

\* the message that broadcast_message (lines 402-411 and 531-541) sends for
\* variant v and the Frame record frame_id
Broadcast(type, v, frame_id) == [type |-> type, variant |-> v, frame_id |-> frame_id]

\* the side actions of a variant that may fail: the save of the initial
\* preview (lines 377-391), the save of a step preview (on_preview, lines
\* 424-432), the write of the parameter sidecar (lines 497-523) and the
\* send of a broadcast (handlers/websocket.py lines 152-160)
SideActions == {"initial_preview", "step_preview", "params", "broadcast"}

\* What a failed side action makes of the variant.  The except clause of
\* lines 388-391 handles a failed initial preview by saving a blank image
\* with Image.new, but Image is a local name of _generate_single_variant
\* (the import of line 465) that is not bound yet, so the clause raises and
\* the except clause of line 556 fails the variant.  The other failures
\* are caught and logged where they happen.
SideFailure(side) ==
    IF side = "initial_preview"
    THEN "Variant generation error: cannot access local variable 'Image'"
    ELSE None

\* the stage in which a side action is run
SideStage(side) ==
    CASE side = "initial_preview" -> 4
      [] side = "step_preview" -> 5
      [] side = "params" -> 7
      [] OTHER -> 4

\* generate lines 72-129: should_stop is reset, the check of line 125 finds
\* it reset, and update_progress(5.0) goes to the progress callback
sdxl_begin ==
    \E i \in Instances :
    /\ Pipeline(i).pc = "scheduled"
    /\ tasks[i[1]].type = "sdxl"
    /\ SetPipeline(i, progress_callback([Pipeline(i) EXCEPT !.should_stop = FALSE,
                                                            !.step = 0],
                                        i[1], 5, "sdxl_stage"))
    /\ UNCHANGED <<phase, tasks, running_tasks, calls, returns, last, issued, crashes, frames, events, sidecars>>

\* lines 180-190 and 548-554: variant pl.variant returned success; its
\* result names the naming frame id, which generate appends to
\* generated_frames and keeps as base_frame_id
VariantDone(pl) ==
    [pl EXCEPT !.generated = Append(@, NamingFrameId(pl)),
               !.base_frame_id = NamingFrameId(pl),
               !.sent = Append(@, Broadcast("generation_completed", pl.variant,
                                            pl.frame_id))]

\* line 156: the loop goes on to the next variant
NextVariant(pl) == [pl EXCEPT !.variant = @ + 1, !.step = 0, !.frame_id = 0]

\* lines 139-150: the checkpoint is loaded if the instance has not loaded
\* this path last; loaded_checkpoint is None in a new SDXLLoader (line 38)
LoadCheckpoint(pl, ckpt_path) ==
    IF pl.loaded_checkpoint # ckpt_path
    THEN [pl EXCEPT !.loaded_checkpoint = ckpt_path]
    ELSE pl

\* From the return of one awaited update_progress of a variant to the next
\* one, for stage k of the variant pl.variant of task id run by pl (the
\* n-th instance of the task): the checkpoint of lines 139-150 before the
\* first variant, the seed of lines 244-249 at the start of
\* the variant, the Frame record of lines 317-363 (an absent project_id
\* fails FrameCreate, which the except clause of line 556 turns into a
\* failed variant), the initial preview and the generation_started
\* broadcast of lines 376-411, the KSampler (blocking; it raises or its
\* preview callback creates the preview coroutines), the should_stop check,
\* the final path of lines 460-490, the next update_progress.  side names
\* the side action that fails in the stage, if any.  A failed variant ends
\* generate (lines 173-178).  The image, preview and parameter files the
\* stages write are read by nothing in the service: the parameter file is
\* followed by save_generation_params on its own.
SdxlVariantStageSide(pl00, id, n, k, seed, sampler_raises, side) ==
    LET st == SdxlStages[k]
        t == tasks[id]
        created == st.frame /\ t.project_id # NoProject
        fails == IF st.frame /\ t.project_id = NoProject THEN "Variant generation error"
                 ELSE IF side # None /\ k = SideStage(side) /\ SideFailure(side) # None
                 THEN SideFailure(side)
                 ELSE IF st.sampling /\ sampler_raises THEN "KSampler failed"
                 ELSE None
        \* line 130: all tasks name the same model_name, and the file exists
        pl0 == IF k = 1 /\ pl00.variant = 0 THEN LoadCheckpoint(pl00, "checkpoint")
               ELSE pl00
        pl == [pl0 EXCEPT
                  !.step = k,
                  !.seeds = IF k = 1 /\ ~pl0.should_stop THEN Append(@, seed) ELSE @,
                  !.frame_id = IF created THEN Len(frames) + 1 ELSE @,
                  !.sent = IF st.frame /\ fails = None
                           THEN Append(@, Broadcast("generation_started", pl0.variant,
                                                    Len(frames) + 1))
                           ELSE @,
                  !.previews = IF st.sampling /\ fails = None
                               THEN @ \o NewPreviews(t.steps) ELSE @] IN
    /\ frames' = IF created
                 THEN Append(frames, SdxlFrame(id, n, t.project_id, pl.variant,
                                               NamingFrameId(pl)))
                 ELSE IF k = FinalPathStage
                 THEN [frames EXCEPT ![pl.frame_id].path = "final_path"]
                 ELSE frames
    /\ plugins' = [plugins EXCEPT ![id][n] =
           IF fails # None
           THEN Returned(pl, id, PluginResult(FALSE, NoData, VariantFailed(pl.variant, fails)))
           ELSE IF st.poll /\ pl.should_stop
           THEN Returned(pl, id, PluginResult(FALSE, NoData, StoppedError(pl.variant, k)))
           ELSE progress_callback(pl, id, StageProgress(st, pl.variant, t.num_variants),
                                  "sdxl_stage")]

\* the stage when no side action fails
SdxlVariantStage(pl0, id, n, k, seed, sampler_raises) ==
    SdxlVariantStageSide(pl0, id, n, k, seed, sampler_raises, None)

\* generate lines 156-207 between two awaited update_progress calls: the
\* next stage of the running variant; after the last stage of a variant the
\* next variant starts, or update_progress(100.0) of line 193 is awaited;
\* after that generate returns success with generated_frames and
\* num_variants (lines 195-207)
sdxl_stage ==
    \E i \in Instances :
    /\ Pipeline(i).pc = "sdxl_stage"
    /\ LET pl == Pipeline(i)
           id == i[1]
           n == i[2]
           N == tasks[id].num_variants
           more == pl.step = VariantStages /\ pl.variant + 1 < N
           cur == IF more THEN NextVariant(VariantDone(pl)) ELSE pl
           k == cur.step + 1 IN
       IF k <= VariantStages
       THEN \E seed \in IF k = 1 THEN VariantSeeds(tasks[id].seed, cur.variant)
                        ELSE {NoSeed} :
            \E sampler_raises \in IF SdxlStages[k].sampling THEN BOOLEAN ELSE {FALSE} :
                SdxlVariantStage(cur, id, n, k, seed, sampler_raises)
       ELSE /\ SetPipeline(i,
                   IF k = Len(SdxlStages)
                   THEN progress_callback([VariantDone(pl) EXCEPT !.step = k], id,
                                          StageProgress(SdxlStages[k], pl.variant, N),
                                          "sdxl_stage")
                   ELSE Returned(pl, id,
                                 PluginResult(TRUE, SdxlOutput(pl.generated, N), None)))
            /\ UNCHANGED frames
    /\ UNCHANGED <<phase, tasks, running_tasks, calls, returns, last, issued, crashes, events, sidecars>>

\* A preview coroutine starts: SDXLLoader.update_progress lines 704-710
\* await the callback, i.e. update_task_status(RUNNING, progress).  The
\* callback is the lambda of line 166, which reads variant_progress_start
\* and variant_progress_end when it is called.
sdxl_preview ==
    \E i \in Instances :
    \E s \in 1..Len(Pipeline(i).previews) :
    /\ Pipeline(i).previews[s].pc = "scheduled"
    /\ LET pv == Pipeline(i).previews[s]
           progress == VariantProgress(Pipeline(i).variant, tasks[i[1]].num_variants,
                                       pv.p) IN
       SetPipeline(i, [Pipeline(i) EXCEPT
                          !.reported = progress,
                          !.previews[s] =
                              UtsEnter(pv, i[1], Upd(RUNNING, progress, NoData, None),
                                       "done")])
    /\ UNCHANGED <<phase, tasks, running_tasks, calls, returns, last, issued, crashes, frames, events, sidecars>>

\* the UPDATE of a preview coroutine's update_task_status
sdxl_preview_write ==
    \E i \in Instances :
    \E s \in 1..Len(Pipeline(i).previews) :
    /\ Pipeline(i).previews[s].pc = "uts_write"
    /\ LET pv == Pipeline(i).previews[s] IN
       /\ tasks' = [tasks EXCEPT ![i[1]] = UpdateRow(@, pv.upd, pv.started_none)]
       /\ SetPipeline(i, [Pipeline(i) EXCEPT !.previews[s] = UtsLeave(pv)])
    /\ UNCHANGED <<phase, running_tasks, calls, returns, last, issued, crashes, frames, events, sidecars>>

\* --------------------------------------------------- a drop-in plugin
\* an except clause that records no message
ExceptUpdateNoError(message) == Upd(FAILED, NoProgress, NoData, None)

\* _run_generation lines 199-204: update_task_status(FAILED, error=str(e))
ExceptUpdate(message) == Upd(FAILED, NoProgress, NoData, message)

\* _run_generation line 172: generate is entered and suspends
dropin_begin ==
    \E i \in Instances :
    /\ Pipeline(i).pc = "scheduled"
    /\ tasks[i[1]].type \in DropInTypes
    /\ SetPipeline(i, [Pipeline(i) EXCEPT !.pc = "generating"])
    /\ UNCHANGED <<phase, tasks, running_tasks, calls, returns, last, issued, crashes, frames, events, sidecars>>

\* generate ends: it returns a PluginResult (lines 175-197), or raises.
\* An Exception is handled at lines 199-205; any other BaseException
\* passes the except clause, the finally block (lines 207-211) runs and the
\* exception leaves _run_generation.
dropin_end ==
    \E i \in Instances :
    /\ Pipeline(i).pc = "generating"
    /\ \/ /\ \E result \in {PluginResult(TRUE, DropInOutput, None),
                             PluginResult(FALSE, NoData, DropInError)} :
                 SetPipeline(i, Returned(Pipeline(i), i[1], result))
          /\ UNCHANGED running_tasks
       \/ /\ SetPipeline(i, UtsEnter([Pipeline(i) EXCEPT !.raised = "Exception"], i[1],
                                     ExceptUpdate(DropInError), "finally"))
          /\ UNCHANGED running_tasks
       \/ /\ SetPipeline(i, [Pipeline(i) EXCEPT !.raised = "BaseException",
                                                !.propagated = TRUE, !.pc = "ended"])
          /\ running_tasks' = Delete(running_tasks, i[1])
    /\ UNCHANGED <<phase, tasks, calls, returns, last, issued, crashes, frames, events, sidecars>>

\* A drop-in plugin with preview support: generate creates its own Frame
\* record and returns a result that names it next to the output_path, the
\* case of _create_frame_record lines 217-225
InlineFrameOutput(frame_id) ==
    [DropInOutput EXCEPT !.output_path = TRUE, !.frame_id = frame_id]

dropin_inline_frame ==
    \E i \in Instances :
    /\ Pipeline(i).pc = "generating"
    /\ tasks[i[1]].project_id # NoProject
    /\ frames' = Append(frames, TaskFrame(i[1], i[2]))
    /\ SetPipeline(i, Returned([Pipeline(i) EXCEPT !.frame_id = Len(frames) + 1], i[1],
                               PluginResult(TRUE, InlineFrameOutput(Len(frames) + 1), None)))
    /\ UNCHANGED <<phase, tasks, running_tasks, calls, returns, last, issued, crashes, events, sidecars>>

Next ==
    \/ cleanup_stuck_tasks
    \/ Crash
    \/ create_task
    \/ start_generation
    \/ start_check
    \/ start_dispatch
    \/ stop_generation
    \/ stop_check
    \/ task_progress
    \/ clear_pending_tasks
    \/ clear_read
    \/ clear_write
    \/ stop_all_tasks
    \/ reset_all
    \/ stop_all_read
    \/ stop_all_check
    \/ call_update_write
    \/ generate_begin
    \/ generate_step
    \/ generate_loop
    \/ run_update_write
    \/ run_generation_finally

Spec == Init /\ [][Next]_vars

\* The service with the sdxl plugin and a drop-in plugin: submit, start,
\* stop and the pipelines.
start_plugin_generation == issued < MaxPluginCalls /\ start_generation

stop_plugin_generation == issued < MaxPluginCalls /\ stop_generation

NextPlugins ==
    \/ cleanup_stuck_tasks
    \/ create_plugin_task
    \/ start_plugin_generation
    \/ start_check
    \/ start_dispatch
    \/ stop_plugin_generation
    \/ stop_check
    \/ call_update_write
    \/ sdxl_begin
    \/ sdxl_stage
    \/ sdxl_preview
    \/ sdxl_preview_write
    \/ dropin_begin
    \/ dropin_end
    \/ run_update_write
    \/ run_generation_finally

SpecPlugins == Init /\ [][NextPlugins]_vars

\* The service with drop-in plugins and the emergency stop: submit, start,
\* the pipelines and stop_all_tasks.
create_dropin_task ==
    \E type \in DropInTypes, steps \in StepsInputs :
        Submit(type, TaskData(steps, NoProject, 1, NoSeed), MaxTasks)

NextStopAll ==
    \/ cleanup_stuck_tasks
    \/ create_dropin_task
    \/ start_generation
    \/ start_check
    \/ start_dispatch
    \/ stop_all_tasks
    \/ stop_all_read
    \/ stop_all_check
    \/ call_update_write
    \/ dropin_begin
    \/ dropin_end
    \/ run_update_write
    \/ run_generation_finally

SpecStopAll == Init /\ [][NextStopAll]_vars

\* The service with the frames table: tasks of a project for the example
\* plugin, for the sdxl plugin (one variant, the default) and for a drop-in
\* plugin that creates its frame inline; submit, start (also twice) and the
\* pipelines.
FrameTaskTypes == {"example", "sdxl"} \cup DropInTypes

create_frame_task ==
    \E type \in FrameTaskTypes :
        Submit(type, TaskData(1, Project, 1, BaseSeed), MaxFrameTasks)

start_frame_generation == issued < MaxFrameCalls /\ start_generation

NextFrames ==
    \/ cleanup_stuck_tasks
    \/ create_frame_task
    \/ start_frame_generation
    \/ start_check
    \/ start_dispatch
    \/ call_update_write
    \/ generate_begin
    \/ generate_step
    \/ generate_loop
    \/ sdxl_begin
    \/ sdxl_stage
    \/ sdxl_preview
    \/ sdxl_preview_write
    \/ dropin_begin
    \/ dropin_inline_frame
    \/ run_update_write
    \/ create_frame_record
    \/ run_generation_finally

SpecFrames == Init /\ [][NextFrames]_vars

\* The sdxl plugin with one or more variants, with and without a seed:
\* submit, one start and the pipeline.
SeedTaskData ==
    {TaskData(1, Project, n, seed) : n \in 1..MaxVariants, seed \in {NoSeed, BaseSeed}}

create_seed_task == \E data \in SeedTaskData : Submit("sdxl", data, MaxFrameTasks)

start_seed_generation == issued < MaxSeedCalls /\ start_generation

NextSeeds ==
    \/ cleanup_stuck_tasks
    \/ create_seed_task
    \/ start_seed_generation
    \/ start_check
    \/ start_dispatch
    \/ call_update_write
    \/ sdxl_begin
    \/ sdxl_stage
    \/ sdxl_preview
    \/ sdxl_preview_write
    \/ run_update_write
    \/ run_generation_finally

SpecSeeds == Init /\ [][NextSeeds]_vars

\* SpecSeeds with the event loop running every coroutine that is ready: the
\* calls, the dispatched pipeline and the progress updates that the preview
\* callback creates
SpecFair ==
    /\ SpecSeeds
    /\ WF_vars(start_check)
    /\ WF_vars(start_dispatch)
    /\ WF_vars(call_update_write)
    /\ WF_vars(sdxl_begin)
    /\ WF_vars(sdxl_stage)
    /\ WF_vars(sdxl_preview)
    /\ WF_vars(sdxl_preview_write)
    /\ WF_vars(run_update_write)
    /\ WF_vars(run_generation_finally)

\* Two sdxl tasks that name the same checkpoint, started one after the
\* other: a start is issued when no call is suspended and no pipeline runs.
create_cache_task ==
    \E steps \in StepsInputs :
        Submit("sdxl", TaskData(steps, Project, 1, BaseSeed), MaxCacheTasks)

start_cache_generation ==
    /\ issued < MaxCacheCalls
    /\ calls = EmptyBag
    /\ \A id \in TaskIds : \A n \in 1..Len(plugins[id]) : plugins[id][n].pc = "ended"
    /\ start_generation

NextCache ==
    \/ cleanup_stuck_tasks
    \/ create_cache_task
    \/ start_cache_generation
    \/ start_check
    \/ start_dispatch
    \/ call_update_write
    \/ sdxl_begin
    \/ sdxl_stage
    \/ sdxl_preview
    \/ sdxl_preview_write
    \/ run_update_write
    \/ run_generation_finally

SpecCache == Init /\ [][NextCache]_vars

\* The sdxl plugin with side actions that fail: submit, one start and the
\* pipeline, any stage of which may run with a failing side action.
sdxl_stage_side ==
    \E i \in Instances, side \in SideActions :
    /\ Pipeline(i).pc = "sdxl_stage"
    /\ Pipeline(i).step + 1 = SideStage(side)
    /\ \E sampler_raises \in IF SdxlStages[SideStage(side)].sampling THEN BOOLEAN
                              ELSE {FALSE} :
           SdxlVariantStageSide(Pipeline(i), i[1], i[2], SideStage(side), NoSeed,
                                sampler_raises, side)
    /\ UNCHANGED <<phase, tasks, running_tasks, calls, returns, last, issued, crashes, events, sidecars>>

create_side_task ==
    \E steps \in StepsInputs :
        Submit("sdxl", TaskData(steps, Project, 1, BaseSeed), MaxFrameTasks)

NextSide ==
    \/ cleanup_stuck_tasks
    \/ create_side_task
    \/ start_seed_generation
    \/ start_check
    \/ start_dispatch
    \/ call_update_write
    \/ sdxl_begin
    \/ sdxl_stage
    \/ sdxl_stage_side
    \/ sdxl_preview
    \/ sdxl_preview_write
    \/ run_update_write
    \/ run_generation_finally

SpecSide == Init /\ [][NextSide]_vars

\* The parameter files: saves and loads for a few image paths, two of
\* which share their parameter file.
ImagePaths ==
    {[parent |-> "frames", stem |-> stem, suffix |-> suffix] :
        stem \in {"frame_1", "frame_2"}, suffix \in {".png", ".jpg"}}
        \ {[parent |-> "frames", stem |-> "frame_2", suffix |-> ".jpg"]}

\* the save calls; parameters as they come out of the task data: JSON
\* values
SaveInputs ==
    {SaveArgs(output_path, PyStr("sdxl"), PyStr("1.0.0"), PyInt(42), timestamp,
              parameters, project_id) :
        output_path \in ImagePaths,
        timestamp \in {PyNone, PyStr("20251013_150530")},
        parameters \in
            {PyDict([prompt |-> PyStr("landscape"), steps |-> PyInt(32)]),
             PyDict([prompt |-> PyStr("portrait"), seed |-> PyNone,
                     loras |-> PyList(<<PyDict([lora_name |-> PyStr("detail")])>>)])},
        project_id \in {PyNone, PyInt(Project)}}

save_generation_params ==
    \E a \in SaveInputs :
    /\ sidecars' = SaveParams(sidecars, a)
    /\ UNCHANGED <<phase, tasks, running_tasks, plugins, calls, returns, last, issued, crashes, frames, events>>

load_generation_params ==
    \E image_path \in ImagePaths :
    /\ sidecars' = LoadParams(sidecars, image_path)
    /\ UNCHANGED <<phase, tasks, running_tasks, plugins, calls, returns, last, issued, crashes, frames, events>>

NextParams ==
    \/ save_generation_params
    \/ load_generation_params

SpecParams == Init /\ [][NextParams]_vars

\* ------------------------------------------------------- the HTTP handlers
\* handlers/generator.py builds a GeneratorService for every request (lines
\* 120, 165, 210), each with a running set of its own (GeneratorService
\* lines 17-20); handlers/system.py uses the one service of the application
\* (main.py line 75).  Under SpecHandlers running_tasks is the running set
\* of the application's service.  The service of a start_task request holds
\* the entry of the instance it created from line 147 until the finally
\* block of the run it dispatched (lines 209-210); no other request sees it.

\* GeneratorService.__init__ lines 17-20: the running set of a service that
\* a handler has just built
InRequestRunning(id) ==
    LET request_running_tasks == <<>> IN
    \E i \in 1..Len(request_running_tasks) : request_running_tasks[i].id = id

\* start_task lines 117-122: start_generation of the request's service
\* reads the row
start_task ==
    \E id \in TaskIds :
    /\ Issue([NewCall("start", id) EXCEPT !.pc = "start_task_check", !.seen = StatusOf(id)])
    /\ UNCHANGED <<phase, tasks, running_tasks, plugins, returns, last, crashes, frames, events, sidecars>>

\* start_generation lines 129-150 on the request's service: reject, or
\* instantiate the plugin, register it in the request's own running set and
\* enter update_task_status(RUNNING, progress=0.0)
start_task_check ==
    \E r \in Suspended :
    /\ r.pc = "start_task_check"
    /\ IF r.seen = None \/ ~StartAllowed(r.seen)
       THEN /\ Return(r, r.id, FALSE)
            /\ UNCHANGED plugins
       ELSE LET n == Len(plugins[r.id]) + 1 IN
            /\ plugins' = [plugins EXCEPT ![r.id] = Append(@, NewPlugin)]
            /\ Resume(r, UtsEnter([r EXCEPT !.plugin = n], r.id,
                                  Upd(RUNNING, 0, NoData, None), "start_dispatch"))
            /\ UNCHANGED returns
    /\ UNCHANGED <<phase, tasks, running_tasks, last, issued, crashes, frames, events, sidecars>>

\* stop_task lines 162-167: stop_generation of the request's service reads
\* the row
stop_task ==
    \E id \in TaskIds :
    /\ Issue([NewCall("stop", id) EXCEPT !.pc = "stop_task_check", !.seen = StatusOf(id)])
    /\ UNCHANGED <<phase, tasks, running_tasks, plugins, returns, last, crashes, frames, events, sidecars>>

\* stop_generation lines 286-300 on the request's service: its running set
\* is empty, the test of line 293 fails, and update_task_status(STOPPED) is
\* entered
stop_task_check ==
    \E r \in Suspended :
    /\ r.pc = "stop_task_check"
    /\ IF r.seen = None \/ ~StopAllowed(r.seen)
       THEN /\ Return(r, r.id, FALSE)
            /\ UNCHANGED plugins
       ELSE /\ plugins' = [plugins EXCEPT ![r.id] =
                    [n \in 1..Len(@) |->
                        IF InRequestRunning(r.id) /\ @[n].pc # "ended"
                        THEN [@[n] EXCEPT !.should_stop = TRUE] ELSE @[n]]]
            /\ Resume(r, UtsEnter(r, r.id, Upd(STOPPED, NoProgress, NoData, None),
                                  "stop_return"))
            /\ UNCHANGED returns
    /\ UNCHANGED <<phase, tasks, running_tasks, last, issued, crashes, frames, events, sidecars>>

\* get_task_progress (the handler) lines 207-226: get_task_progress of the
\* request's service finds its running set empty and returns None (FALSE),
\* and the handler answers with the persisted progress
progress_handler ==
    \E id \in TaskIds :
    /\ phase = "serving"
    /\ issued < MaxCalls
    /\ Exists(id)
    /\ issued' = issued + 1
    /\ returns' = [returns EXCEPT ![<<"progress", id, InRequestRunning(id)>>] = @ + 1]
    /\ UNCHANGED <<phase, tasks, running_tasks, plugins, calls, last, crashes, frames, events, sidecars>>

\* handlers/system.py lines 17-21: reset_all of the application's service
emergency_stop == reset_all

create_handler_task ==
    \E steps \in StepsInputs :
        Submit("example", TaskData(steps, NoProject, 1, NoSeed), MaxTasks)

NextHandlers ==
    \/ cleanup_stuck_tasks
    \/ create_handler_task
    \/ start_task
    \/ start_task_check
    \/ start_dispatch
    \/ stop_task
    \/ stop_task_check
    \/ progress_handler
    \/ emergency_stop
    \/ clear_read
    \/ clear_write
    \/ call_update_write
    \/ generate_begin
    \/ generate_step
    \/ generate_loop
    \/ run_update_write
    \/ run_generation_finally

SpecHandlers == Init /\ [][NextHandlers]_vars

\* ================================================================ claims
\* the edges of the task state machine
Edges ==
    {<<PENDING, RUNNING>>, <<RUNNING, COMPLETED>>, <<RUNNING, FAILED>>,
     <<RUNNING, STOPPED>>, <<PENDING, STOPPED>>}

Rows == 1..Len(tasks)

\* every pipeline dispatched or about to be dispatched for the task has ended
Unwound(id) == \A n \in 1..Len(plugins[id]) : plugins[id][n].pc = "ended"

\* no client call is suspended on the task
Quiet(id) == \A r \in Suspended : r.id # id

\* the suspended call r takes the step (and the process does not die)
TakesStep(r) == CopiesIn(r, calls') < CopiesIn(r, calls) /\ phase' = phase

\* the call r returns ret for task id in the step
ReturnsWith(r, id, ret) ==
    /\ calls' = calls (-) SetToBag({r})
    /\ returns' = [returns EXCEPT ![<<r.op, id, ret>>] = @ + 1]

\* C1: every change of a task's persisted status is one of the five edges
\* PENDING->RUNNING, RUNNING->COMPLETED, RUNNING->FAILED, RUNNING->STOPPED,
\* PENDING->STOPPED.
C1_OnlyEdges ==
    [][\A id \in Rows :
          tasks'[id].status # tasks[id].status
              => <<tasks[id].status, tasks'[id].status>> \in Edges]_vars

\* C2: once a task's persisted status is COMPLETED, FAILED or STOPPED, no
\* later write changes it.
C2_TerminalAbsorbing ==
    [][\A id \in Rows :
          tasks[id].status \in TerminalStatus
              => tasks'[id].status = tasks[id].status]_vars

\* C3: of the start calls issued for one PENDING task at most one returns
\* true, and one plugin instance is created for the task.
C3_SingleStart ==
    \A id \in TaskIds :
        /\ returns[<<"start", id, TRUE>>] <= 1
        /\ Len(plugins[id]) <= 1

\* C4: after requestStop returned true for a task, once the pipeline has
\* finished unwinding (and no other call is in flight on the task), the
\* persisted status is STOPPED.
C4_StoppedIsFinal ==
    \A id \in TaskIds :
        (returns[<<"stop", id, TRUE>>] > 0 /\ Unwound(id) /\ Quiet(id))
            => StatusOf(id) = STOPPED

\* C5: while the process is up, a task id is in the running set if and
\* only if its persisted status is RUNNING, at every suspension point.
C5_RunningSetIffRunning ==
    phase = "serving" =>
        \A id \in TaskIds : InRunning(id) <=> StatusOf(id) = RUNNING

\* C6: a start call that finds the task missing or in a status other than
\* PENDING returns false, creates no plugin instance and leaves the task
\* store and the running set as they are.
C6_StartRejected ==
    [][\A r \in Suspended :
          (r.op = "start" /\ r.pc = "start_check" /\ r.seen # PENDING /\ TakesStep(r))
              => /\ ReturnsWith(r, r.id, FALSE)
                 /\ UNCHANGED <<tasks, running_tasks, plugins>>]_vars

\* C6 witness: a start was rejected for a task that is running or terminal
C6_Witness ==
    \E id \in TaskIds :
        /\ returns[<<"start", id, FALSE>>] > 0
        /\ StatusOf(id) \in TerminalStatus \cup {RUNNING}

\* C7: a stop call that finds the task missing or in a status other than
\* RUNNING returns false, signals no plugin and leaves the task store and
\* the running set as they are.
C7_StopRejected ==
    [][\A r \in Suspended :
          (r.op = "stop" /\ r.pc = "stop_check" /\ r.seen # RUNNING /\ TakesStep(r))
              => /\ ReturnsWith(r, r.id, FALSE)
                 /\ UNCHANGED <<tasks, running_tasks, plugins>>]_vars

\* C7 witness: a stop was rejected for a task that is pending or terminal
C7_Witness ==
    \E id \in TaskIds :
        /\ returns[<<"stop", id, FALSE>>] > 0
        /\ StatusOf(id) \in TerminalStatus \cup {PENDING}

\* C8: a stop call that finds the task RUNNING signals every plugin
\* instance that is executing the task and removes the id from the running
\* set; and once a stop has returned true for the task, progressOf is None.
C8_StopSignalsAndRemoves ==
    [][/\ \A r \in Suspended :
            (r.op = "stop" /\ r.pc = "stop_check" /\ r.seen = RUNNING /\ TakesStep(r))
                => /\ \A n \in 1..Len(plugins[r.id]) :
                         plugins[r.id][n].pc # "ended" => plugins'[r.id][n].should_stop
                   /\ ~(InRunning(r.id))'
       /\ \A id \in TaskIds :
            (returns[<<"stop", id, TRUE>>] > 0 /\ phase' = phase)
                => (get_task_progress(id) = NoProgress)']_vars

\* C9: of the stop calls issued for one RUNNING task at most one returns
\* true.
C9_SingleStop ==
    \A id \in TaskIds : returns[<<"stop", id, TRUE>>] <= 1

\* C10: startup recovery runs before any call is accepted, and it turns
\* every task persisted as RUNNING into STOPPED with progress 0 and an
\* error message, so that no task is RUNNING when it has finished.
C10_Recovery ==
    /\ [](phase = "startup" => (calls = EmptyBag /\ running_tasks = <<>>))
    /\ [][(phase = "startup" /\ phase' = "serving") =>
            \A id \in Rows :
                /\ tasks'[id].status # RUNNING
                /\ tasks[id].status = RUNNING =>
                      /\ tasks'[id].status = STOPPED
                      /\ tasks'[id].progress = 0
                      /\ tasks'[id].error # None
                /\ tasks[id].status # RUNNING => tasks'[id] = tasks[id]]_vars

\* C10 witness: recovery has stopped a task that a crash left RUNNING
C10_Witness ==
    /\ phase = "serving"
    /\ crashes > 0
    /\ \E id \in Rows :
          /\ tasks[id].status = STOPPED
          /\ tasks[id].error = ServerRestart
          /\ tasks[id].started_at > 0
          /\ tasks[id].progress = 0

\* every pipeline of every task has ended and no call is suspended
AllQuiet == calls = EmptyBag /\ \A id \in TaskIds : Unwound(id)

\* the latest reset_all ran with no other client call beside it: none was
\* suspended when it was issued, none was issued and no task was submitted
\* while it ran
ResetAllAlone == last.op = "reset_all" /\ last.snap.alone

\* C11: a reset_all issued on a store with r RUNNING and p PENDING tasks
\* returns stopped = r and cleared = p, and all these tasks end in STOPPED.
C11_ResetAll ==
    (ResetAllAlone /\ AllQuiet)
        => /\ last.stopped = Cardinality(last.snap.running)
           /\ last.cleared = Cardinality(last.snap.pending)
           /\ \A id \in last.snap.running \cup last.snap.pending :
                 tasks[id].status = STOPPED

\* C13: in the final state of a task (terminal status, its pipelines ended,
\* no call in flight, recovery applied) the persisted progress is 100 if
\* and only if the status is COMPLETED.
C13_FinalProgress ==
    \A id \in Rows :
        (phase = "serving" /\ tasks[id].status \in TerminalStatus
            /\ Unwound(id) /\ calls = EmptyBag)
            => (tasks[id].progress = 100 <=> tasks[id].status = COMPLETED)

\* C14: every task whose persisted status is COMPLETED, FAILED or STOPPED
\* has a completed_at that is not null.
C14_CompletedAtStamped ==
    \A id \in Rows :
        tasks[id].status \in TerminalStatus => tasks[id].completed_at # 0

\* C15: once completed_at has been stamped, no later step writes it again.
C15_CompletedAtOnce ==
    [][\A id \in Rows :
          tasks[id].completed_at # 0
              => tasks'[id].completed_at = tasks[id].completed_at]_vars

\* C16: once started_at has been stamped, no later step writes it again.
C16_StartedAtOnce ==
    [][\A id \in Rows :
          tasks[id].started_at # 0
              => tasks'[id].started_at = tasks[id].started_at]_vars

CallbackWrite(i) ==
    /\ phase' = phase
    /\ Pipeline(i).pc = "uts_write"
    /\ Pipeline(i).after # "finally"
    /\ plugins'[i[1]][i[2]].pc = Pipeline(i).after

\* the progress callback called from sampling step s of pipeline i persists
\* a value in the step
PreviewWrite(i, s) ==
    /\ phase' = phase
    /\ Pipeline(i).previews[s].pc = "uts_write"
    /\ plugins'[i[1]][i[2]].previews[s].pc = "done"

\* C12: the progress values the progress callback persists for a task never
\* decrease, the values reported from within the sampling stage included.
C12_ProgressNonDecreasing ==
    [][\A i \in Instances :
          (CallbackWrite(i) \/ \E s \in 1..Len(Pipeline(i).previews) : PreviewWrite(i, s))
              => tasks'[i[1]].progress >= tasks[i[1]].progress]_vars

\* the pipeline i executes the UPDATE of its completion handling
FinalWrite(i) ==
    /\ phase' = phase
    /\ Pipeline(i).pc = "uts_write"
    /\ Pipeline(i).after = "finally"
    /\ plugins'[i[1]][i[2]].pc = "finally"

\* C18: when generate has returned, completion handling persists COMPLETED
\* with progress 100 and the returned data for a success, and FAILED with
\* the reported error for a failure.
C18_CompletionHandling ==
    [][\A i \in Instances :
          FinalWrite(i)
              => LET res == Pipeline(i).result
                     row == tasks'[i[1]] IN
                 IF res.success
                 THEN row.status = COMPLETED /\ row.progress = 100 /\ row.result = res.data
                 ELSE row.status = FAILED /\ row.error = res.error]_vars

\* C18 witness: a pipeline whose plugin reported a failure has persisted
\* FAILED with the reported error
C18_Witness ==
    \E j \in Instances :
        /\ Pipeline(j).pc = "finally" /\ ~Pipeline(j).result.success
        /\ Pipeline(j).result.error = StoppedByUser
        /\ tasks[j[1]].status = FAILED /\ tasks[j[1]].error = StoppedByUser

\* the pipeline i, whose generate raised, executes the UPDATE of the except
\* clause in the step
ExceptWrite(i) ==
    /\ FinalWrite(i)
    /\ Pipeline(i).raised # None

\* the row of task id after the step is FAILED with the raised message
FailedWithMessage(id) ==
    /\ tasks'[id].status = FAILED
    /\ tasks'[id].error = DropInError

FinallyStep(i) ==
    /\ phase' = phase
    /\ Pipeline(i).pc = "finally"
    /\ plugins'[i[1]][i[2]].pc = "ended"

\* C20: the running-set entry of a dispatched task is removed exactly once:
\* a finally block removes no entry but the one of its own pipeline, and
\* once the pipelines of a task have ended and no call is in flight on it,
\* its id is not in the running set.
C20_EntryRemovedOnce ==
    /\ [](\A id \in TaskIds :
            (phase = "serving" /\ Len(plugins[id]) > 0 /\ Unwound(id) /\ Quiet(id))
                => ~InRunning(id))
    /\ [][\A i \in Instances :
            (FinallyStep(i) /\ InRunning(i[1])) => PluginOf(i[1]) = i[2]]_vars

\* the bulk UPDATE of the clear_pending_tasks of call r is executed in the
\* step
ClearWrite(r) == r.pc = "clear_write" /\ TakesStep(r)

\* C30: clear_pending_tasks turns every PENDING task into STOPPED, changes
\* no other task, and returns the number of tasks it changed, also when a
\* submit or a start comes between its SELECT and its UPDATE.
C30_ClearPending ==
    [][\A r \in Suspended :
          ClearWrite(r)
              => /\ \A id \in Rows :
                       IF tasks[id].status = PENDING
                       THEN tasks'[id].status = STOPPED
                       ELSE tasks'[id] = tasks[id]
                 /\ last'.cleared = Cardinality(PendingIds)]_vars

\* the generate of pipeline i begins a stage in the step: the simulated
\* work of the example plugin, or the next stage of the sdxl plugin
BeginsStage(i) ==
    /\ phase' = phase
    /\ \/ /\ Pipeline(i).pc # "sleep"
          /\ plugins'[i[1]][i[2]].pc = "sleep"
       \/ /\ Pipeline(i).pc \in {"scheduled", "sdxl_stage"}
          /\ plugins'[i[1]][i[2]].after = "sdxl_stage"

\* the generate of pipeline i returns success in the step
ReturnsSuccess(i) ==
    /\ phase' = phase
    /\ Pipeline(i).result = NoResult
    /\ plugins'[i[1]][i[2]].result.success

\* C27: once stop() has been called on a plugin instance whose generate has
\* not returned (also before generate has started), generate begins no
\* further stage and does not return success.
C27_StopIsObeyed ==
    [][\A i \in Instances :
          (Pipeline(i).should_stop /\ Pipeline(i).result = NoResult)
              => ~BeginsStage(i) /\ ~ReturnsSuccess(i)]_vars

\* the instance the running set holds for task id
Held(id) == plugins[id][PluginOf(id)]

\* C28: get_progress() of the plugin instance held in the running set
\* returns the last value reported to the progress callback, and 0 before
\* the first report.
C28_GetProgress ==
    \A id \in TaskIds :
        InRunning(id)
            => get_task_progress(id)
                   = IF Held(id).reported = NoProgress THEN 0 ELSE Held(id).reported

\* the call records that the step suspends
Added == {r2 \in BagToSet(calls') : CopiesIn(r2, calls') > CopiesIn(r2, calls)}

\* the stop_generation that stop_all_tasks runs for the head of r.ids ends
\* in the step: with True (its UPDATE is executed), or with False or an
\* exception (its check leads to no UPDATE)
StopEnds(r) ==
    /\ r.op = "stop_all"
    /\ TakesStep(r)
    /\ \/ r.pc = "uts_write"
       \/ r.pc = "stop_all_check" /\ \A r2 \in Added : r2.pc # "uts_write"

\* the count of stop_all_tasks after that stop_generation
CountAfter(r) == IF r.pc = "uts_write" THEN r.stopped + 1 ELSE r.stopped

\* C29: stop_all_tasks takes a snapshot of the keys of the running set when
\* it is called, calls stop_generation once for each id of the snapshot in
\* turn, goes on after a call that returned False or raised, and returns
\* the number of calls that returned True.
C29_StopAll ==
    [][/\ (issued' = issued + 1 /\ \E r2 \in Added : r2.op = "stop_all")
            => \E r2 \in Added :
                  /\ r2.ids = Keys(running_tasks)
                  /\ r2.id = Head(r2.ids)
                  /\ r2.stopped = 0
       /\ (issued' = issued + 1
             /\ returns'[<<"stop_all", 0, TRUE>>] > returns[<<"stop_all", 0, TRUE>>])
            => Keys(running_tasks) = <<>> /\ last'.stopped = 0
       /\ \A r \in Suspended :
            (r.op = "stop_all" /\ r.pc = "stop_all_read" /\ TakesStep(r))
                => \E r2 \in Added : r2.ids = r.ids /\ r2.id = r.id /\ r2.stopped = r.stopped
       /\ \A r \in Suspended :
            StopEnds(r)
                => IF Tail(r.ids) # <<>>
                   THEN \E r2 \in Added :
                           /\ r2.ids = Tail(r.ids)
                           /\ r2.id = Head(r2.ids)
                           /\ r2.stopped = CountAfter(r)
                   ELSE /\ Added = {}
                        /\ last'.op = "stop_all"
                        /\ last'.stopped = CountAfter(r)]_vars

\* C29 witness: stop_all_tasks took a snapshot of two ids, its
\* stop_generation of the first one returned False or raised (the entry is
\* still in the running set and nothing was counted), and it has gone on
\* to the second one
C29_Witness ==
    \E r \in Suspended :
        /\ r.op = "stop_all"
        /\ r.pc = "stop_all_check"
        /\ r.stopped = 0
        /\ Len(running_tasks) = 2
        /\ r.ids = <<running_tasks[2].id>>
        /\ tasks[running_tasks[1].id].status = RUNNING

\* ----------------------------------------------------------------- C24
\* the seed variant k of the run i was started with (k counted from 0)
SeedOf(i, k) == Pipeline(i).seeds[k + 1]

\* C24: the seeds of the variants of one task are consecutive: variant k
\* runs with base + k, where base is the seed the task supplies or, when it
\* supplies none, the one number the first variant ran with
C24_ConsecutiveSeeds ==
    \A i \in Instances :
        \A k \in 0..(Len(Pipeline(i).seeds) - 1) :
            /\ SeedOf(i, k) = SeedOf(i, 0) + k
            /\ tasks[i[1]].seed # NoSeed => SeedOf(i, k) = tasks[i[1]].seed + k

\* ----------------------------------------------------------------- C25
\* the ids of the Frame records made by the runs of task id
FramesOf(id) == {f \in 1..Len(frames) : frames[f].task = id}

\* the frame ids listed in the persisted result of task id
ListedFrames(id) ==
    {tasks[id].result.generated_frames[k] :
        k \in 1..Len(tasks[id].result.generated_frames)}

\* C25: the result of a task that succeeded with N variants lists exactly
\* N frame ids, one for each of the N Frame records the task created
C25_ResultListsFrames ==
    \A id \in 1..Len(tasks) :
        (tasks[id].status = COMPLETED /\ tasks[id].type = "sdxl")
            => /\ Len(tasks[id].result.generated_frames) = tasks[id].num_variants
               /\ ListedFrames(id) = FramesOf(id)
               /\ Cardinality(FramesOf(id)) = tasks[id].num_variants

\* ----------------------------------------------------------------- C22
\* a frame_updated message was broadcast for a Frame record of task id
FrameUpdated(id) ==
    \E e \in 1..Len(events) : events[e] \in FramesOf(id)

\* C22: after a successful plugin completion, of whatever plugin type, the
\* orchestrator broadcasts frame_updated for the task's Frame record, after
\* the task was persisted as COMPLETED: a run whose generate returned success
\* has done so by the time its completion handling has ended, and no run
\* broadcasts before its COMPLETED update was written
C22_FrameUpdated ==
    \A i \in Instances :
        /\ (Pipeline(i).result.success /\ Pipeline(i).pc = "ended")
               => FrameUpdated(i[1])
        /\ (Pipeline(i).pc = "uts_write" /\ Pipeline(i).upd.status = COMPLETED
                /\ Len(plugins[i[1]]) = 1)
               => ~FrameUpdated(i[1])

\* ----------------------------------------------------------------- C23
\* the Frame record of task id that was created first
FirstFrame(id) == CHOOSE f \in FramesOf(id) : \A g \in FramesOf(id) : f <= g

\* C23: a successful task that requested N variants has created exactly N
\* Frame records, all with the task's project_id, all named after the
\* first-created one, with the variant_id values 0..N-1 each used once
C23_VariantFrames ==
    \A id \in 1..Len(tasks) :
        (tasks[id].status = COMPLETED /\ tasks[id].type = "sdxl")
            => /\ Cardinality(FramesOf(id)) = tasks[id].num_variants
               /\ \A f \in FramesOf(id) :
                      /\ frames[f].project_id = tasks[id].project_id
                      /\ frames[f].naming = FirstFrame(id)
               /\ \A v \in 0..(tasks[id].num_variants - 1) :
                      Cardinality({f \in FramesOf(id) : frames[f].variant_id = v}) = 1

\* ----------------------------------------------------------------- C21
\* completion handling of the run i fetches or creates the Frame record, for
\* a result that names a frame the plugin created
InlineFrameHandled(i) ==
    /\ Pipeline(i).pc = "frame_record"
    /\ plugins'[i[1]][i[2]].pc = "finally"
    /\ Pipeline(i).result.data.frame_id # 0

\* the Frame records of task id for variant v
VariantFrames(id, v) == {f \in FramesOf(id) : frames[f].variant_id = v}

\* every run of task id has ended
RunsEnded(id) == \A n \in 1..Len(plugins[id]) : plugins[id][n].pc = "ended"

\* C21: the orchestrator never double-creates a Frame record: completion
\* handling of a result that names a Frame record the plugin created adds no
\* Frame record, and every variant of a successful task has exactly one
\* Frame record (never more than one, and one once the runs of the task
\* have ended)
C21_NoDoubleFrame ==
    /\ [](\A id \in 1..Len(tasks) :
            tasks[id].status = COMPLETED
                => \A v \in 0..(tasks[id].num_variants - 1) :
                       /\ Cardinality(VariantFrames(id, v)) <= 1
                       /\ RunsEnded(id) => Cardinality(VariantFrames(id, v)) = 1)
    /\ [][\A i \in Instances : InlineFrameHandled(i) => frames' = frames]_vars

\* the first half alone: no Frame record is added for a result that names one
C21_InlineFrameKept ==
    [][\A i \in Instances : InlineFrameHandled(i) => frames' = frames]_vars

\* ----------------------------------------------------------------- C26
\* generate of the sdxl run i has returned a failure
VariantFailure(i) ==
    /\ tasks[i[1]].type = "sdxl"
    /\ Pipeline(i).result # NoResult
    /\ ~Pipeline(i).result.success

\* C26: generate returns success only if every requested variant succeeded;
\* when variant k fails no later variant is attempted (k variants have
\* succeeded, k + 1 were started), generate returns the failure with the
\* error of variant k, and the task does not become COMPLETED
C26_VariantFailure ==
    \A i \in Instances :
        /\ (tasks[i[1]].type = "sdxl" /\ Pipeline(i).result.success)
               => Len(Pipeline(i).generated) = tasks[i[1]].num_variants
        /\ VariantFailure(i)
               => /\ Len(Pipeline(i).seeds) = Len(Pipeline(i).generated) + 1
                  /\ Pipeline(i).result.error
                         = VariantFailed(Len(Pipeline(i).generated), "KSampler failed")
                  /\ tasks[i[1]].status # COMPLETED

\* the same without the last part: what generate returns
C26_GenerateResult ==
    \A i \in Instances :
        /\ (tasks[i[1]].type = "sdxl" /\ Pipeline(i).result.success)
               => Len(Pipeline(i).generated) = tasks[i[1]].num_variants
        /\ VariantFailure(i)
               => /\ Len(Pipeline(i).seeds) = Len(Pipeline(i).generated) + 1
                  /\ Pipeline(i).result.error
                         = VariantFailed(Len(Pipeline(i).generated), "KSampler failed")

\* ----------------------------------------------------------------- C39
\* C39: in every state, the result of a task is present if and only if its
\* status is COMPLETED, and its error is present only if its status is
\* FAILED or STOPPED
C39_ResultAndError ==
    \A id \in 1..Len(tasks) :
        /\ tasks[id].result # NoData <=> tasks[id].status = COMPLETED
        /\ tasks[id].error # None => tasks[id].status \in {FAILED, STOPPED}

\* a plugin instance of task id is executing: created by a start and not yet
\* past the finally block of its run
Executing(id) == \E n \in 1..Len(plugins[id]) : plugins[id][n].pc # "ended"

\* C35: the running set is shared by all entry points: a stop request
\* through the stop_task handler that found the task RUNNING sets the
\* cancellation flag of every plugin instance executing the task, and the
\* progress handler, asked about a task that an instance is executing, reads
\* a live value from that instance.
C35_SharedRunningSet ==
    [][/\ \A r \in Suspended :
            (r.pc = "stop_task_check" /\ r.seen = RUNNING /\ TakesStep(r))
                => \A n \in 1..Len(plugins[r.id]) :
                       plugins[r.id][n].pc # "ended" => plugins'[r.id][n].should_stop
       /\ \A id \in TaskIds :
            (Executing(id) /\ tasks[id].status = RUNNING /\ phase' = phase)
                => returns'[<<"progress", id, FALSE>>] = returns[<<"progress", id, FALSE>>]]_vars

\* C34: when an emergency stop returns that ran with no other client call
\* beside it, none of the tasks that were RUNNING or PENDING when it was
\* issued is persisted as RUNNING or PENDING, and every plugin instance that
\* is still executing one of them has its cancellation flag set.
C34_EmergencyStop ==
    [][(last' # last /\ last'.op = "reset_all" /\ last'.snap.alone)
          => \A id \in last'.snap.running \cup last'.snap.pending :
                /\ tasks'[id].status \notin {RUNNING, PENDING}
                /\ \A n \in 1..Len(plugins'[id]) :
                      plugins'[id][n].pc # "ended" => plugins'[id][n].should_stop]_vars

\* the generate of pipeline j has begun and has not returned
InStages(j) ==
    /\ Pipeline(j).pc \notin {"created", "scheduled", "ended"}
    /\ Pipeline(j).result = NoResult

\* C33: the pipeline of a task begins no stage while another task is RUNNING
\* with a generate that has begun and not returned: the stages of two
\* tasks' pipelines are never interleaved.
C33_NoInterleaving ==
    [][\A i \in Instances :
          BeginsStage(i)
              => \A j \in Instances :
                    j[1] # i[1] => ~(tasks[j[1]].status = RUNNING /\ InStages(j))]_vars

\* pipeline i loads the checkpoint in the step
LoadsCheckpoint(i) ==
    /\ phase' = phase
    /\ plugins'[i[1]][i[2]].loaded_checkpoint # Pipeline(i).loaded_checkpoint

\* C38: of tasks of one plugin type that name the same checkpoint and run
\* one after the other, only the first loads it: no pipeline loads the
\* checkpoint that the pipeline of an earlier task of its type has loaded
\* last.
C38_SingleSlotCache ==
    [][\A i \in Instances :
          LoadsCheckpoint(i)
              => \A j \in Instances :
                    (j[1] # i[1] /\ tasks[j[1]].type = tasks[i[1]].type)
                        => Pipeline(j).loaded_checkpoint
                               # plugins'[i[1]][i[2]].loaded_checkpoint]_vars

\* C31: once the persisted status of a task is terminal, the pipeline of the
\* task creates no Frame record and rewrites the path of none: every Frame
\* record that the sdxl plugin made for the task is left as it is, and no
\* new one appears.
C31_NoFrameAfterTerminal ==
    [][\A id \in 1..Len(tasks) :
          (tasks[id].status \in TerminalStatus /\ phase' = phase)
              => \A f \in 1..Len(frames') :
                    (frames'[f].task = id /\ frames'[f].generator = "sdxl")
                        => f <= Len(frames) /\ frames[f] = frames'[f]]_vars

\* the error of a variant that a failed side action has failed
SideError(error) ==
    \E v \in 0..(MaxVariants - 1), side \in SideActions :
        /\ SideFailure(side) # None
        /\ error = VariantFailed(v, SideFailure(side))

\* C32: a failed side action (a broadcast, the initial preview, a step
\* preview, the parameter sidecar) fails neither the variant nor the task:
\* no generate returns the error of a side action and no task carries one.
C32_SideActionsSwallowed ==
    /\ \A id \in 1..Len(tasks) : ~SideError(tasks[id].error)
    /\ \A i \in Instances :
          Pipeline(i).result # NoResult => ~SideError(Pipeline(i).result.error)

\* the messages that pipeline i has broadcast
Sent(i) == Pipeline(i).sent

\* the e-th message of pipeline i is of the type and for variant v
IsSent(i, e, type, v) == Sent(i)[e].type = type /\ Sent(i)[e].variant = v

\* the order of the broadcasts of one pipeline: generation_started(v) names
\* an existing Frame record of variant v and, for v > 0, follows
\* generation_completed(v - 1); generation_completed(v) follows
\* generation_started(v) and names a Frame record that has its final path;
\* the compute stage of a variant runs after its generation_started
BroadcastOrder(i) ==
    /\ \A e \in 1..Len(Sent(i)) :
          LET m == Sent(i)[e] IN
          /\ m.frame_id \in 1..Len(frames)
          /\ frames[m.frame_id].task = i[1]
          /\ frames[m.frame_id].variant_id = m.variant
          /\ m.type = "generation_started" /\ m.variant > 0
                => \E e0 \in 1..(e - 1) :
                      IsSent(i, e0, "generation_completed", m.variant - 1)
          /\ m.type = "generation_completed"
                => /\ frames[m.frame_id].path = "final_path"
                   /\ \E e0 \in 1..(e - 1) :
                         IsSent(i, e0, "generation_started", m.variant)
    /\ (tasks[i[1]].type = "sdxl" /\ Pipeline(i).step >= 5)
          => \E e \in 1..Len(Sent(i)) :
                IsSent(i, e, "generation_started", Pipeline(i).variant)

\* pipeline i broadcasts generation_completed in the step
BroadcastsCompleted(i) ==
    /\ phase' = phase
    /\ Len(plugins'[i[1]][i[2]].sent) = Len(Sent(i)) + 1
    /\ plugins'[i[1]][i[2]].sent[Len(Sent(i)) + 1].type = "generation_completed"

\* C37: for each variant of a task, generation_started is broadcast after
\* the variant's Frame record exists and before its compute stage,
\* generation_completed only after the final path was written to that
\* record and before generation_started of the next variant, and no
\* generation_completed is broadcast for a variant that failed or that
\* ran while stop() was called on its plugin instance.
C37_BroadcastOrder ==
    /\ [](\A i \in Instances : BroadcastOrder(i))
    /\ [][\A i \in Instances :
             BroadcastsCompleted(i)
                 => ~Pipeline(i).should_stop /\ Pipeline(i).result = NoResult]_vars

\* the order of the broadcasts alone
C37_OrderAlone == \A i \in Instances : BroadcastOrder(i)

\* dict.get(key): the entry of a loaded dict, None if there is none
Get(dict, key) == IF key \in DOMAIN dict.v THEN dict.v[key] ELSE PyNone

\* the latest load was for the image of the latest save
LoadedSaved ==
    /\ sidecars.saved # <<>>
    /\ sidecars.loaded # <<>>
    /\ sidecars.loaded[1].image_path = sidecars.saved[1].args.output_path

C36_Terminates ==
    \A id \in TaskIds :
        /\ [](StatusOf(id) = RUNNING => <>[](StatusOf(id) \in TerminalStatus))
        /\ [](InRunning(id) => <>(~InRunning(id)))

\* the entry of a running task leaves the running set
C36_EntryRemoved ==
    \A id \in TaskIds : [](InRunning(id) => <>(~InRunning(id)))
====
